---- MODULE Spec2Model ----
(***************************************************************************)
(* A model of methods/mixtureofdiffusers.py: the MixtureOfDiffusers tiled  *)
(* fusion step (apply_model), its weight setup (init, init_custom_bbox,    *)
(* get_global_weights, _gaussian_weights) and the hook/unhook wiring.      *)
(*                                                                         *)
(* Numbers.  Tensor entries are exact rationals <<n, d>> (d > 0, lowest    *)
(* terms).  The Gaussian density of _gaussian_weights is transcendental;   *)
(* the model rounds it to a power of two: exp(-t) = 2^(-t*log2(e)) is      *)
(* taken as 2^(-floor(GaussBits * d^2 / tile_w^2)) with d = 2*(x-midpoint) *)
(* and 1/sqrt(2*pi*var) = 3.989 as GaussAmp = 4.  Floating-point rounding, *)
(* underflow and dtype conversion are outside the model.                   *)
(* Tensors have shape (N, C, H, W) with N = C = 1 and are functions from   *)
(* <<y, x>> (0-based, as in the source) to rationals.  A bbox is the tuple *)
(* <<x0, y0, x1, y1>>: bbox[k] of the source is bbox[k+1] here.            *)
(***************************************************************************)
EXTENDS Integers, Sequences, FiniteSets, TLC

(* ------------------------------ bounds -------------------------------- *)
\* widest canvas (latent width w)
MaxW == 3
\* tallest canvas (latent height h)
MaxH == 1
\* denoising steps (apply_model calls) of one run
MaxSteps == 2
\* completion callbacks that may be registered
MaxCallbacks == 3
\* unhook() invocations counted from completion notifications
MaxDetach == 4

(* --------------------------- rational numbers ------------------------- *)
RECURSIVE GCD(_, _)
GCD(a, b) == IF b = 0 THEN a ELSE GCD(b, a % b)

Abs(n) == IF n < 0 THEN -n ELSE n

Norm(n, d) ==
    LET g == GCD(Abs(n), d)
    IN  IF n = 0 THEN <<0, 1>> ELSE <<n \div g, d \div g>>

Zero == <<0, 1>>
One == <<1, 1>>
Int2Rat(k) == <<k, 1>>

RAdd(a, b) ==
    LET g == GCD(a[2], b[2])
    IN  Norm(a[1] * (b[2] \div g) + b[1] * (a[2] \div g), (a[2] \div g) * b[2])

RNeg(a) == <<-a[1], a[2]>>
RSub(a, b) == RAdd(a, RNeg(b))

RMul(a, b) ==
    LET g1 == GCD(Abs(a[1]), b[2])
        g2 == GCD(Abs(b[1]), a[2])
    IN  IF a[1] = 0 \/ b[1] = 0 THEN Zero
        ELSE <<(a[1] \div g1) * (b[1] \div g2), (a[2] \div g2) * (b[2] \div g1)>>

\* 1 / a, for a # 0
RInv(a) == IF a[1] < 0 THEN <<-a[2], -a[1]>> ELSE <<a[2], a[1]>>

RAbs(a) == <<Abs(a[1]), a[2]>>
RLess(a, b) == a[1] * b[2] < b[1] * a[2]
RPos(a) == a[1] > 0

(* ------------------------------ tensors ------------------------------- *)
Coords(hh, ww) == (0 .. hh - 1) \X (0 .. ww - 1)

\* torch.zeros / zeros_like / zero_()
Zeros(hh, ww) == [p \in Coords(hh, ww) |-> Zero]

BoxW(bbox) == bbox[3] - bbox[1]
BoxH(bbox) == bbox[4] - bbox[2]

\* t[:, :, bbox[1]:bbox[3], bbox[0]:bbox[2]]
Slice(t, bbox) ==
    [p \in Coords(BoxH(bbox), BoxW(bbox)) |-> t[<<p[1] + bbox[2], p[2] + bbox[1]>>]]

InBox(p, bbox) ==
    /\ bbox[2] <= p[1] /\ p[1] < bbox[4]
    /\ bbox[1] <= p[2] /\ p[2] < bbox[3]

\* t[:, :, bbox[1]:bbox[3], bbox[0]:bbox[2]] += tile
AddAt(t, bbox, tile) ==
    [p \in DOMAIN t |->
        IF InBox(p, bbox)
        THEN RAdd(t[p], tile[<<p[1] - bbox[2], p[2] - bbox[1]>>])
        ELSE t[p]]

\* element-wise a * b of two tensors of one shape
TMul(a, b) == [p \in DOMAIN a |-> RMul(a[p], b[p])]

\* tensor * scalar
TScale(a, s) == [p \in DOMAIN a |-> RMul(a[p], s)]

\* 1 / tensor
TInv(a) == [p \in DOMAIN a |-> RInv(a[p])]

(* ------------------------- _gaussian_weights -------------------------- *)
\* 1/sqrt(2*pi*var) with var = 0.01 is 3.989..., taken as 4
GaussAmp == 4
\* 1/(8*var) * log2(e) = 12.5 * 1.4427 = 18.03, taken as 18
GaussBits == 18

\* f(x, midpoint) of the source, with d2 = 2*(x - midpoint)
GaussF(d2, tw) == Norm(GaussAmp, 2 ^ ((GaussBits * d2 * d2) \div (tw * tw)))

\* np.outer(y_probs, x_probs): midpoint (tile_w - 1)/2 across, tile_h/2 down,
\* and tile_w*tile_w in both exponents
_gaussian_weights(tw, th) ==
    [p \in Coords(th, tw) |->
        RMul(GaussF(2 * p[1] - th, tw), GaussF(2 * p[2] - (tw - 1), tw))]

(* ------------------------------- state -------------------------------- *)
VARIABLES
    \* TiledDiffusion constructor arguments (the tiling collaborator)
    w, h, tile_w, tile_h, is_kdiff,
    \* attributes of the MixtureOfDiffusers instance
    batched_bboxes, custom_bboxes, global_multiplier,
    weights, per_tile_weights, rescale_factor, custom_weights, x_buffer,
    \* modules.shared.state.interrupted
    state_interrupted,
    \* position in the run and in apply_model, and apply_model's locals
    pc, batch_id, bbox_id, x_in, x_tile_out,
    \* what apply_model returned: "none", "x_in" or "x_buffer"
    ret,
    \* observation: the events of the current apply_model call, in order
    trace,
    \* observation: apply_model calls begun, executions of the rescale setup,
    \* and the cached tensors as the setup left them
    steps, setups, frozen,
    \* shared.sd_model.apply_model, shared.sd_model.md_org_apply_model and
    \* script_callbacks' callback_map['callbacks_before_image_saved']
    sd_apply_model, md_org_apply_model, callbacks,
    \* observation: the last hook operation with the attributes before it, and
    \* unhook() invocations made by completion callbacks since the last hook()
    last, detach_calls

fusion_vars ==
    <<w, h, tile_w, tile_h, is_kdiff, batched_bboxes, custom_bboxes,
      global_multiplier, weights, per_tile_weights, rescale_factor,
      custom_weights, x_buffer, state_interrupted, pc, batch_id, bbox_id, x_in,
      x_tile_out, ret, trace, steps, setups, frozen>>

hook_vars == <<sd_apply_model, md_org_apply_model, callbacks, last, detach_calls>>

vars == <<fusion_vars, hook_vars>>

\* hasattr(obj, name) is false: the attribute has not been set (or was deleted)
NoAttr == <<>>

(* ========================== hook and unhook =========================== *)
\* MixtureOfDiffusers instances that may call hook()
MaxInstances == 2
Instances == 1 .. MaxInstances

\* Callables are compared by identity: the function and the object it is bound to.
\* f: the model's own apply_model, the prediction entry point before any hook
OrigApplyModel == [fn |-> "f", self |-> 0]
\* self.apply_model of an instance
BoundApplyModel(self) == [fn |-> "apply_model", self |-> self]
\* the closure remove_hook that one hook() call of an instance creates
RemoveHookFn(self) == [fn |-> "remove_hook", self |-> self]
\* the static method MixtureOfDiffusers.unhook
UnhookFn == [fn |-> "unhook", self |-> 0]
\* md_org_apply_model is not an attribute of shared.sd_model
NoMarker == [fn |-> "no attribute", self |-> 0]

\* The attributes the hook operations read and write, as one record:
\*   apply: shared.sd_model.apply_model, marker: shared.sd_model.md_org_apply_model,
\*   cbs: the before_image_saved callback list, calls: unhook() invocations counted
HookState == [apply |-> sd_apply_model, marker |-> md_org_apply_model,
              cbs |-> callbacks, calls |-> detach_calls]

\* script_callbacks.before_image_saved_callback(callback): append to the list
before_image_saved_callback(s, callback) ==
    [s EXCEPT !.cbs = Append(s.cbs, [callback |-> callback])]

\* script_callbacks.remove_callbacks_for_function(callback_func): drop every entry
\* whose callback is callback_func
remove_callbacks_for_function(s, callback_func) ==
    [s EXCEPT !.cbs = SelectSeq(s.cbs, LAMBDA cb : cb.callback # callback_func)]

\* a plausible slip: the restored marker is not deleted
unhook_keeps_marker(s) ==
    IF s.marker # NoMarker THEN [s EXCEPT !.apply = s.marker] ELSE s

\* MixtureOfDiffusers.unhook()
unhook(s) ==
    IF s.marker # NoMarker
    THEN [s EXCEPT !.apply = s.marker, !.marker = NoMarker]
    ELSE s

\* the closure remove_hook(_): unhook(), then remove the callbacks registered for
\* MixtureOfDiffusers.unhook
remove_hook(s) ==
    remove_callbacks_for_function([unhook(s) EXCEPT !.calls = s.calls + 1], UnhookFn)

\* a plausible slip: no hasattr guard, the current entry point is saved again
hook_unguarded(self, s) ==
    before_image_saved_callback(
        [s EXCEPT !.marker = s.apply, !.apply = BoundApplyModel(self)],
        RemoveHookFn(self))

\* MixtureOfDiffusers.hook(self)
hook(self, s) ==
    before_image_saved_callback(
        IF s.marker = NoMarker
        THEN [s EXCEPT !.marker = s.apply, !.apply = BoundApplyModel(self)]
        ELSE s,
        RemoveHookFn(self))

\* one registered callback called with the image-save parameters
InvokeCallback(cb, s) ==
    IF cb.callback.fn = "remove_hook" THEN remove_hook(s)
    ELSE IF cb.callback.fn = "unhook" THEN unhook(s)
    ELSE s

\* script_callbacks fires before_image_saved: a for loop over the list, which the
\* callbacks may shorten while it runs (the loop index goes on from where it is)
RECURSIVE RunCallbacks(_, _)
RunCallbacks(s, i) ==
    IF i >= Len(s.cbs) THEN s ELSE RunCallbacks(InvokeCallback(s.cbs[i + 1], s), i + 1)

SetHookState(s) ==
    /\ sd_apply_model' = s.apply
    /\ md_org_apply_model' = s.marker
    /\ callbacks' = s.cbs
    /\ detach_calls' = s.calls

Before(op, self) ==
    [op |-> op, self |-> self, apply |-> sd_apply_model, marker |-> md_org_apply_model]

\* an instance calls hook()
Hook(self) ==
    /\ Len(callbacks) < MaxCallbacks
    /\ SetHookState([hook(self, HookState) EXCEPT !.calls = 0])
    /\ last' = Before("hook", self)
    /\ UNCHANGED fusion_vars

\* the script calls MixtureOfDiffusers.unhook() itself
Unhook ==
    /\ SetHookState(unhook(HookState))
    /\ last' = Before("unhook", 0)
    /\ UNCHANGED fusion_vars

\* a run-completion notification: an image is about to be saved
Notify ==
    /\ detach_calls + Len(callbacks) <= MaxDetach
    /\ SetHookState(RunCallbacks(HookState, 0))
    /\ last' = Before("notify", 0)
    /\ UNCHANGED fusion_vars

HookInit ==
    /\ sd_apply_model = OrigApplyModel
    /\ md_org_apply_model = NoMarker
    /\ callbacks = <<>>
    /\ detach_calls = 0
    /\ last = [op |-> "none", self |-> 0, apply |-> OrigApplyModel, marker |-> NoMarker]

(* ------------------------- inputs of one run -------------------------- *)
\* custom regions a run may declare
MaxRegions == 2

\* bboxes of custom regions: the top row of the canvas at full width, and the
\* bottom-right cell (neither is taller than wide: the model's rationals hold
\* the kernel of such a box)
RegionBoxes == <<(<<0, 0, w, 1>>), (<<w - 1, h - 1, w, h>>)>>

\* n declared regions that take the two bboxes in turn, starting with the k-th;
\* region i has its own conditioning pair (named i) and blend multiplier i
RegionList(n, k) ==
    [i \in 1 .. n |-> <<RegionBoxes[((i + k) % 2) + 1], i, i, Int2Rat(i)>>]

RegionLists == {RegionList(n, k) : n \in 0 .. MaxRegions, k \in 0 .. 1}

\* global blend multipliers: negative, zero, one, within 1e-6 of one, two
Multipliers == {<<-1, 1>>, Zero, One, <<10000001, 10000000>>, <<2, 1>>}


(* ============================ tiled fusion ============================ *)
(* ---- the tiling collaborator: TiledDiffusion (methods/abstractdiffusion) *)
CeilDiv(a, b) == (a + b - 1) \div b
Min(a, b) == IF a < b THEN a ELSE b

\* where the tiles of one axis start: enough tiles of length tile to cover len
\* with the given overlap, the last one pushed back inside the canvas
GridStarts(len, tile, overlap) ==
    LET n == IF len <= tile THEN 1 ELSE CeilDiv(len - overlap, tile - overlap)
    IN  [i \in 1 .. n |-> Min((i - 1) * (tile - overlap), len - tile)]

\* the uniform tiles, row by row, all of size tile_w x tile_h
GridBBoxes(overlap) ==
    LET xs == GridStarts(w, tile_w, Min(overlap, tile_w - 1))
        ys == GridStarts(h, tile_h, Min(overlap, tile_h - 1))
        nc == Len(xs)
    IN  [k \in 1 .. Len(ys) * nc |->
            LET x == xs[((k - 1) % nc) + 1]
                y == ys[((k - 1) \div nc) + 1]
            IN  <<x, y, x + tile_w, y + tile_h>>]

\* the tiles grouped into batches of at most tile_bs
Batches(bboxes, tile_bs) ==
    [b \in 1 .. CeilDiv(Len(bboxes), tile_bs) |->
        SubSeq(bboxes, (b - 1) * tile_bs + 1, Min(b * tile_bs, Len(bboxes)))]

Flatten(batches) ==
    LET RECURSIVE Cat(_)
        Cat(i) == IF i > Len(batches) THEN <<>> ELSE batches[i] \o Cat(i + 1)
    IN  Cat(1)

\* weights[bbox.slicer] += init_weight for every uniform tile
RECURSIVE AddTiles(_, _, _, _)
AddTiles(t, bboxes, tile, i) ==
    IF i > Len(bboxes) THEN t ELSE AddTiles(AddAt(t, bboxes[i], tile), bboxes, tile, i + 1)

\* MixtureOfDiffusers.get_global_weights: the attribute after the call
get_global_weights(ptw) ==
    IF ptw = NoAttr THEN _gaussian_weights(tile_w, tile_h) ELSE ptw

\* TiledDiffusion.init_grid_bbox: enumerate and batch the uniform tiles and add the
\* kernel of every placed tile into weights
InitGridBBox ==
    /\ pc = "new"
    /\ \E overlap \in 0 .. tile_w - 1, tile_bs \in 1 .. 2 :
       LET bboxes == GridBBoxes(overlap)
           ptw == get_global_weights(per_tile_weights)
       IN  /\ per_tile_weights' = ptw
           /\ batched_bboxes' = Batches(bboxes, tile_bs)
           /\ weights' = AddTiles(weights, bboxes, ptw, 1)
    /\ pc' = "grid"
    /\ UNCHANGED <<w, h, tile_w, tile_h, is_kdiff, custom_bboxes,
                   global_multiplier, rescale_factor, custom_weights, x_buffer,
                   state_interrupted, batch_id, bbox_id, x_in, x_tile_out, ret,
                   trace, steps, setups, frozen>>
    /\ UNCHANGED hook_vars

\* the loop of MixtureOfDiffusers.init_custom_bbox over self.custom_bboxes, from
\* region i on; st holds weights and custom_weights
RECURSIVE init_custom_bbox(_, _, _)
init_custom_bbox(st, regions, i) ==
    IF i > Len(regions) THEN st
    ELSE LET bbox == regions[i][1]
             m == regions[i][4]
             gaussian_weights == TScale(_gaussian_weights(BoxW(bbox), BoxH(bbox)), m)
         IN  init_custom_bbox(
                 [weights |-> AddAt(st.weights, bbox, gaussian_weights),
                  custom_weights |-> Append(st.custom_weights, gaussian_weights)],
                 regions, i + 1)

\* init_custom_bbox(global_multiplier, bbox_control_states): the base class keeps
\* the multiplier and the regions, then the loop above runs
InitCustomBBox ==
    /\ pc = "grid"
    /\ \E gm \in Multipliers, regions \in RegionLists :
        /\ global_multiplier' = gm
        /\ custom_bboxes' = regions
        /\ LET st == init_custom_bbox(
                         [weights |-> weights, custom_weights |-> custom_weights],
                         regions, 1)
           IN  /\ weights' = st.weights
               /\ custom_weights' = st.custom_weights
    /\ pc' = "idle"
    /\ UNCHANGED <<w, h, tile_w, tile_h, is_kdiff, batched_bboxes,
                   per_tile_weights, rescale_factor, x_buffer, state_interrupted,
                   batch_id, bbox_id, x_in, x_tile_out, ret, trace, steps, setups,
                   frozen>>
    /\ UNCHANGED hook_vars

(* ---- the prediction collaborator ---- *)
\* shared.sd_model.md_org_apply_model on one tile with conditioning c (0: the
\* run's own conditioning): a black box, here a predictor whose answer depends
\* on the input and on the conditioning and never equals its input
UNet(x, c) == [p \in DOMAIN x |-> RAdd(x[p], Int2Rat(c + 1))]

\* kdiff_custom_forward / ddim_custom_forward of the base class: one call of
\* forward_func on the region's tile under the region's own conditioning
kdiff_custom_forward(x_tile, cond) == [via |-> "kdiff", out |-> UNet(x_tile, cond)]
ddim_custom_forward(x_tile, cond) == [via |-> "ddim", out |-> UNet(x_tile, cond)]

\* MixtureOfDiffusers.custom_apply_model
custom_apply_model(x_tile, cond) ==
    IF is_kdiff THEN kdiff_custom_forward(x_tile, cond)
    ELSE ddim_custom_forward(x_tile, cond)

(* ---- MixtureOfDiffusers.init ---- *)
\* TiledDiffusion.init: the accumulation buffer of the step, cleared
TiledDiffusion_init == Zeros(h, w)

\* a plausible slip: no hasattr guard, the setup runs on every step
init_unguarded(st) ==
    LET rf == TInv(weights)
    IN  [rescale_factor |-> rf,
         custom_weights |->
             [i \in 1 .. Len(custom_bboxes) |->
                 TMul(st.custom_weights[i], Slice(rf, custom_bboxes[i][1]))],
         setups |-> st.setups + 1]

\* the body of init after super().init; st holds rescale_factor, custom_weights
\* and the count of setups run
init(st) ==
    IF st.rescale_factor = NoAttr
    THEN LET rf == TInv(weights)
         IN  [rescale_factor |-> rf,
              custom_weights |->
                  [i \in 1 .. Len(custom_bboxes) |->
                      TMul(st.custom_weights[i], Slice(rf, custom_bboxes[i][1]))],
              setups |-> st.setups + 1]
    ELSE st

(* ---- MixtureOfDiffusers.apply_model ---- *)
Event(kind, id, out) == [kind |-> kind, id |-> id, out |-> out]

\* the canvas the sampler passes in at step k: distinct values at distinct
\* places, and another canvas at every step
XIn(k) == [p \in Coords(h, w) |-> Int2Rat(k * (1 + p[2] + w * p[1]))]

\* a plausible slip: >= 0 for > 0
GlobalSampling_nonnegative == global_multiplier[1] >= 0

\* if self.global_multiplier > 0
GlobalSampling == RPos(global_multiplier)

\* 1e-6
Eps == <<1, 1000000>>

\* a plausible slip: any multiplier other than 1.0 scales, however close
NeedsScaling_no_eps == RPos(global_multiplier) /\ global_multiplier # One

\* self.global_multiplier > 0 and abs(self.global_multiplier - 1.0) > 1e-6
NeedsScaling ==
    RPos(global_multiplier) /\ RLess(Eps, RAbs(RSub(global_multiplier, One)))

\* a plausible slip: the kernel is used without the rescale factor
TileWeight_no_rescale(bbox) == per_tile_weights

\* w = self.per_tile_weights * self.rescale_factor[bbox slice]
TileWeight(bbox) == TMul(per_tile_weights, Slice(rescale_factor, bbox))

\* the accumulation loop of one batch, from tile i on
RECURSIVE FuseTiles(_, _, _, _)
FuseTiles(buf, bboxes, out, i) ==
    IF i > Len(bboxes) THEN buf
    ELSE FuseTiles(AddAt(buf, bboxes[i], TMul(out[i], TileWeight(bboxes[i]))),
                   bboxes, out, i + 1)

\* apply_model returns r ("x_in" or "x_buffer")
Returned(r) == pc' = "idle" /\ ret' = r

\* a plausible slip: the interrupted call hands back the partial buffer
InterruptedReturn_buffer == "x_buffer"

\* if state.interrupted: return x_in
InterruptedReturn == "x_in"

\* a plausible slip: the custom-region phase honours the interrupt flag too
FinalReturn_polled == IF state_interrupted THEN "x_in" ELSE "x_buffer"

\* return self.x_buffer
FinalReturn == "x_buffer"

\* a plausible slip: no progress report in the custom-region loop
RegionEvents_no_pbar(res, id) == <<Event(res.via, id, res.out)>>

\* what one pass of the custom-region loop does that an observer sees: the
\* prediction through custom_apply_model, then self.update_pbar()
RegionEvents(res, id) == <<Event(res.via, id, res.out), Event("pbar", id, <<>>)>>

\* apply_model is called: the assert on the shape, self.init(x_in), and the test
\* that opens the global sampling
Call ==
    /\ pc = "idle"
    /\ steps < MaxSteps
    /\ steps' = steps + 1
    /\ x_in' = XIn(steps + 1)
    /\ x_buffer' = TiledDiffusion_init
    /\ LET st == init([rescale_factor |-> rescale_factor,
                       custom_weights |-> custom_weights, setups |-> setups])
       IN  /\ rescale_factor' = st.rescale_factor
           /\ custom_weights' = st.custom_weights
           /\ setups' = st.setups
           /\ frozen' = IF setups = 0
                        THEN <<weights, st.rescale_factor, per_tile_weights,
                               st.custom_weights>>
                        ELSE frozen
    /\ trace' = <<>>
    /\ ret' = "none"
    /\ batch_id' = 0
    /\ bbox_id' = 0
    /\ x_tile_out' = <<>>
    /\ pc' = IF GlobalSampling /\ Len(batched_bboxes) > 0 THEN "poll" ELSE "custom"
    /\ UNCHANGED <<w, h, tile_w, tile_h, is_kdiff, batched_bboxes,
                   custom_bboxes, global_multiplier, weights, per_tile_weights,
                   state_interrupted>>
    /\ UNCHANGED hook_vars

\* the poll before a batch finds state.interrupted set: return x_in
PollInterrupted ==
    /\ pc = "poll"
    /\ state_interrupted
    /\ trace' = Append(trace, Event("interrupted", batch_id, <<>>))
    /\ Returned(InterruptedReturn)
    /\ UNCHANGED <<w, h, tile_w, tile_h, is_kdiff, batched_bboxes,
                   custom_bboxes, global_multiplier, weights, per_tile_weights,
                   rescale_factor, custom_weights, x_buffer, state_interrupted,
                   batch_id, bbox_id, x_in, x_tile_out, steps, setups, frozen>>
    /\ UNCHANGED hook_vars

\* the poll finds the flag clear: slice the batch's tiles and call the model
Dispatch ==
    /\ pc = "poll"
    /\ ~state_interrupted
    /\ LET bboxes == batched_bboxes[batch_id + 1]
           x_tile == [i \in 1 .. Len(bboxes) |-> Slice(x_in, bboxes[i])]
           out == [i \in 1 .. Len(bboxes) |-> UNet(x_tile[i], 0)]
       IN  /\ x_tile_out' = out
           /\ trace' = Append(trace, Event("batch", batch_id, out))
    /\ pc' = "fuse"
    /\ UNCHANGED <<w, h, tile_w, tile_h, is_kdiff, batched_bboxes,
                   custom_bboxes, global_multiplier, weights, per_tile_weights,
                   rescale_factor, custom_weights, x_buffer, state_interrupted,
                   batch_id, bbox_id, x_in, ret, steps, setups, frozen>>
    /\ UNCHANGED hook_vars

\* the model has answered: accumulate the batch's tiles, report progress, and go
\* to the next batch or on to the custom regions
Fuse ==
    /\ pc = "fuse"
    /\ x_buffer' = FuseTiles(x_buffer, batched_bboxes[batch_id + 1], x_tile_out, 1)
    /\ trace' = Append(trace, Event("pbar", batch_id, <<>>))
    /\ batch_id' = batch_id + 1
    /\ pc' = IF batch_id + 1 < Len(batched_bboxes) THEN "poll" ELSE "custom"
    /\ UNCHANGED <<w, h, tile_w, tile_h, is_kdiff, batched_bboxes,
                   custom_bboxes, global_multiplier, weights, per_tile_weights,
                   rescale_factor, custom_weights, state_interrupted, bbox_id,
                   x_in, x_tile_out, ret, steps, setups, frozen>>
    /\ UNCHANGED hook_vars

\* if len(self.custom_bboxes) > 0 fails: return self.x_buffer
NoCustom ==
    /\ pc = "custom"
    /\ Len(custom_bboxes) = 0
    /\ Returned(FinalReturn)
    /\ UNCHANGED <<w, h, tile_w, tile_h, is_kdiff, batched_bboxes,
                   custom_bboxes, global_multiplier, weights, per_tile_weights,
                   rescale_factor, custom_weights, x_buffer, state_interrupted,
                   batch_id, bbox_id, x_in, x_tile_out, trace, steps, setups,
                   frozen>>
    /\ UNCHANGED hook_vars

\* there are custom regions: scale x_buffer by the global multiplier if needed
CustomBegin ==
    /\ pc = "custom"
    /\ Len(custom_bboxes) > 0
    /\ IF NeedsScaling
       THEN /\ x_buffer' = TScale(x_buffer, global_multiplier)
            /\ trace' = Append(trace, Event("scale", 0, x_buffer))
       ELSE UNCHANGED <<x_buffer, trace>>
    /\ pc' = "region"
    /\ UNCHANGED <<w, h, tile_w, tile_h, is_kdiff, batched_bboxes,
                   custom_bboxes, global_multiplier, weights, per_tile_weights,
                   rescale_factor, custom_weights, state_interrupted, batch_id,
                   bbox_id, x_in, x_tile_out, ret, steps, setups, frozen>>
    /\ UNCHANGED hook_vars

\* one pass of the loop over the custom regions; after the last one,
\* return self.x_buffer
Region ==
    /\ pc = "region"
    /\ LET bbox == custom_bboxes[bbox_id + 1][1]
           cond == custom_bboxes[bbox_id + 1][2]
           x_tile == Slice(x_in, bbox)
           res == custom_apply_model(x_tile, cond)
           weighted == TMul(res.out, custom_weights[bbox_id + 1])
       IN  /\ x_tile_out' = weighted
           /\ x_buffer' = AddAt(x_buffer, bbox, weighted)
           /\ trace' = trace \o RegionEvents(res, bbox_id)
    /\ bbox_id' = bbox_id + 1
    /\ IF bbox_id + 1 < Len(custom_bboxes)
       THEN UNCHANGED <<pc, ret>>
       ELSE Returned(FinalReturn)
    /\ UNCHANGED <<w, h, tile_w, tile_h, is_kdiff, batched_bboxes,
                   custom_bboxes, global_multiplier, weights, per_tile_weights,
                   rescale_factor, custom_weights, state_interrupted, batch_id,
                   x_in, steps, setups, frozen>>
    /\ UNCHANGED hook_vars

\* the user interrupts the job: shared.state.interrupted is set from outside
Interrupt ==
    /\ pc \notin {"new", "grid"}
    /\ ~state_interrupted
    /\ state_interrupted' = TRUE
    /\ UNCHANGED <<w, h, tile_w, tile_h, is_kdiff, batched_bboxes,
                   custom_bboxes, global_multiplier, weights, per_tile_weights,
                   rescale_factor, custom_weights, x_buffer, pc, batch_id,
                   bbox_id, x_in, x_tile_out, ret, trace, steps, setups, frozen>>
    /\ UNCHANGED hook_vars

FusionInit ==
    /\ w \in 1 .. MaxW
    /\ h \in 1 .. MaxH
    /\ tile_w \in 1 .. w
    /\ tile_h \in 1 .. Min(h, tile_w)
    /\ is_kdiff \in BOOLEAN
    /\ batched_bboxes = <<>>
    /\ custom_bboxes = <<>>
    /\ global_multiplier = One
    /\ weights = Zeros(h, w)
    /\ per_tile_weights = NoAttr
    /\ rescale_factor = NoAttr
    /\ custom_weights = <<>>
    /\ x_buffer = NoAttr
    /\ state_interrupted = FALSE
    /\ pc = "new"
    /\ batch_id = 0
    /\ bbox_id = 0
    /\ x_in = NoAttr
    /\ x_tile_out = <<>>
    /\ ret = "none"
    /\ trace = <<>>
    /\ steps = 0
    /\ setups = 0
    /\ frozen = NoAttr

Init == FusionInit /\ HookInit

Next ==
    \/ InitGridBBox
    \/ InitCustomBBox
    \/ Call
    \/ PollInterrupted
    \/ Dispatch
    \/ Fuse
    \/ NoCustom
    \/ CustomBegin
    \/ Region
    \/ Interrupt

Spec == Init /\ [][Next]_vars

\* the hook wiring alone, on a model that is not running a step
HookOnlyInit ==
    /\ FusionInit
    /\ w = 1 /\ h = 1 /\ tile_w = 1 /\ tile_h = 1 /\ is_kdiff
    /\ HookInit

HookNext ==
    \/ \E self \in Instances : Hook(self)
    \/ Unhook
    \/ Notify

HookSpec == HookOnlyInit /\ [][HookNext]_vars

(* =============================== claims =============================== *)
Last(s) == s[Len(s)]

\* the events of the current call as <<kind, id>> pairs
Kinds == [i \in 1 .. Len(trace) |-> <<trace[i].kind, trace[i].id>>]

Prefix(s, n) == SubSeq(s, 1, n)

\* the first k uniform-tile batches, each dispatched and then reported
UniformEvents(k) ==
    [i \in 1 .. 2 * k |->
        IF i % 2 = 1 THEN <<"batch", (i - 1) \div 2>> ELSE <<"pbar", (i \div 2) - 1>>]

\* every custom region in declaration order, each predicted and then reported
CustomEvents ==
    [i \in 1 .. 2 * Len(custom_bboxes) |->
        IF i % 2 = 1
        THEN <<IF is_kdiff THEN "kdiff" ELSE "ddim", (i - 1) \div 2>>
        ELSE <<"pbar", (i \div 2) - 1>>]

NotScale(e) == e[1] # "scale"

ReturnedBuffer == pc = "idle" /\ ret = "x_buffer"
ReturnedInput == pc = "idle" /\ ret = "x_in"

ScaleIdx == {i \in 1 .. Len(trace) : trace[i].kind = "scale"}
PollIdx == {i \in 1 .. Len(trace) : trace[i].kind = "interrupted"}

\* after a direct unhook(), or a notification that ran a completion callback
UnhookRan == last.op = "unhook" \/ (last.op = "notify" /\ Len(callbacks) > 0)

\* C1: after every unhook() the entry point is the original f itself and the
\* marker md_org_apply_model is absent, whatever hook() and unhook() calls came
\* before
C1_UnhookRestoresOriginal ==
    UnhookRan => sd_apply_model = OrigApplyModel /\ md_org_apply_model = NoMarker

\* C1 witness: unhook() ran on a model hooked by the second of two hook() calls'
\* predecessor: two hooks were made and the marker was present before it
C1_Witness ==
    /\ last.op = "unhook"
    /\ last.marker = OrigApplyModel
    /\ last.apply # OrigApplyModel
    /\ Len(callbacks) >= 2
    /\ sd_apply_model = OrigApplyModel

\* C2: a hook() call made while the marker is present changes neither the saved
\* original (the marker) nor the installed entry point, and the marker never
\* holds a hooked function
C2_HookIdempotent ==
    /\ (last.op = "hook" /\ last.marker # NoMarker) =>
           sd_apply_model = last.apply /\ md_org_apply_model = last.marker
    /\ md_org_apply_model \in {NoMarker, OrigApplyModel}

\* C2 witness: another instance called hook() on an already hooked model
C2_Witness ==
    /\ last.op = "hook"
    /\ last.marker # NoMarker
    /\ last.self # sd_apply_model.self
    /\ sd_apply_model.fn = "apply_model"

\* C3: after hook(), completion notifications invoke detach once: the first one
\* runs unhook and deregisters the completion callback, so no remove_hook stays
\* registered after a notification and unhook is not invoked again
C3_DetachExactlyOnce ==
    /\ last.op = "notify" =>
           \A i \in 1 .. Len(callbacks) : callbacks[i].callback.fn # "remove_hook"
    /\ detach_calls <= 1

\* C4: a poll that finds the interrupt flag set before batch k ends the call at
\* once: x_in is returned as it was passed in, and the call's events are the k
\* batches before it and nothing else (no batch k, no later batch, no region)
C4_InterruptReturnsInput ==
    \A i \in PollIdx :
        /\ i = Len(trace)
        /\ ReturnedInput
        /\ x_in = XIn(steps)
        /\ trace[i].id < Len(batched_bboxes)
        /\ Prefix(Kinds, i - 1) = UniformEvents(trace[i].id)

\* C4 witness: the flag was found set before the second of three batches
C4_Witness ==
    /\ ReturnedInput
    /\ Len(batched_bboxes) = 3
    /\ Len(trace) = 3
    /\ Last(trace).kind = "interrupted"
    /\ Last(trace).id = 1

\* every canvas location lies in exactly one uniform tile
NonOverlappingCover ==
    LET tiles == Flatten(batched_bboxes)
    IN  \A p \in Coords(h, w) :
            Cardinality({i \in 1 .. Len(tiles) : InBox(p, tiles[i])}) = 1

\* C5: with a non-overlapping uniform tiling of the whole canvas, no custom
\* regions and global multiplier 1, per_tile_weights * rescale_factor[bbox] is 1
\* everywhere and the returned x_buffer is, tile by tile, the model's prediction
C5_FusionReproducesPrediction ==
    (NonOverlappingCover /\ Len(custom_bboxes) = 0 /\ global_multiplier = One
        /\ rescale_factor # NoAttr) =>
        /\ \A b \in 1 .. Len(batched_bboxes) :
               \A i \in 1 .. Len(batched_bboxes[b]) :
                   TMul(per_tile_weights, Slice(rescale_factor, batched_bboxes[b][i]))
                       = [p \in Coords(tile_h, tile_w) |-> One]
        /\ ReturnedBuffer =>
               \A j \in 1 .. Len(trace) :
                   trace[j].kind = "batch" =>
                       \A i \in 1 .. Len(trace[j].out) :
                           Slice(x_buffer, batched_bboxes[trace[j].id + 1][i])
                               = trace[j].out[i]

\* C5 witness: two non-overlapping tiles cover the canvas and the step returned
C5_Witness ==
    /\ ReturnedBuffer
    /\ NonOverlappingCover
    /\ Len(Flatten(batched_bboxes)) = 2
    /\ Len(custom_bboxes) = 0
    /\ global_multiplier = One

\* C6: the rescale setup runs exactly once, on the first step; after it weights,
\* rescale_factor, per_tile_weights and custom_weights stay as the setup left
\* them, with custom_weights[i] = gaussian(region size) * multiplier *
\* rescale_factor[region slice] (the rescale applied once)
C6_SetupOnce ==
    /\ setups = IF steps = 0 THEN 0 ELSE 1
    /\ steps >= 1 =>
        /\ <<weights, rescale_factor, per_tile_weights, custom_weights>> = frozen
        /\ rescale_factor = TInv(weights)
        /\ Len(custom_weights) = Len(custom_bboxes)
        /\ \A i \in 1 .. Len(custom_bboxes) :
               LET bbox == custom_bboxes[i][1]
                   m == custom_bboxes[i][4]
               IN  custom_weights[i] =
                       TMul(TScale(_gaussian_weights(BoxW(bbox), BoxH(bbox)), m),
                            Slice(rescale_factor, bbox))

\* C6 witness: a second step has run to its end on a run with two custom regions
C6_Witness ==
    /\ steps = 2
    /\ ReturnedBuffer
    /\ Len(custom_bboxes) = 2
    /\ custom_weights[1] # custom_weights[2]

\* the condition of the source for scaling x_buffer, spelled out
ScalingDue ==
    /\ Len(custom_bboxes) > 0
    /\ global_multiplier[1] > 0
    /\ RLess(<<1, 1000000>>, RAbs(RSub(global_multiplier, One)))

\* C7 as claimed: every step whose uniform-tile phase ran with a multiplier more
\* than 1e-6 away from 1 scales x_buffer exactly once
C7_ScaledWheneverMultiplierDiffers ==
    (ReturnedBuffer /\ global_multiplier[1] > 0
        /\ RLess(<<1, 1000000>>, RAbs(RSub(global_multiplier, One)))) =>
        Cardinality(ScaleIdx) = 1

\* C7 amended: a step scales x_buffer by the global multiplier exactly once, after
\* all uniform-tile accumulation and before any custom region, when it is not
\* interrupted, the multiplier is positive and more than 1e-6 away from 1 and
\* there is at least one custom region; in every other case it does not scale
C7_ScaledOnceBeforeRegions ==
    /\ Cardinality(ScaleIdx) <= 1
    /\ \A i \in ScaleIdx :
        /\ ScalingDue
        /\ Prefix(Kinds, i - 1) = UniformEvents(Len(batched_bboxes))
        /\ i = Len(trace) => x_buffer = TScale(trace[i].out, global_multiplier)
    /\ (pc = "region" \/ ReturnedBuffer) =>
           Cardinality(ScaleIdx) = IF ScalingDue THEN 1 ELSE 0
    /\ ReturnedInput => ScaleIdx = {}

\* C7 witness: x_buffer has just been scaled, after two batches and before the
\* first custom region
C7_Witness ==
    /\ pc = "region"
    /\ bbox_id = 0
    /\ Len(batched_bboxes) = 2
    /\ Len(trace) = 5
    /\ Last(trace).kind = "scale"
    /\ x_buffer # Last(trace).out

\* C8: an uninterrupted call with a positive multiplier calls the model once per
\* uniform batch in the order supplied, then once per custom region in
\* declaration order, and reports progress once after each of them
C8_CallOrder ==
    (ReturnedBuffer /\ global_multiplier[1] > 0) =>
        SelectSeq(Kinds, NotScale) = UniformEvents(Len(batched_bboxes)) \o CustomEvents

\* C8 witness: a call with three batches and two custom regions returned
C8_Witness ==
    /\ ReturnedBuffer
    /\ global_multiplier[1] > 0
    /\ Len(batched_bboxes) = 3
    /\ Len(custom_bboxes) = 2

\* the custom regions' weighted predictions alone, accumulated from zero
RECURSIVE CustomSum(_, _)
CustomSum(acc, j) ==
    IF j > Len(trace) THEN acc
    ELSE IF trace[j].kind \in {"kdiff", "ddim"}
         THEN CustomSum(AddAt(acc, custom_bboxes[trace[j].id + 1][1],
                              TMul(trace[j].out, custom_weights[trace[j].id + 1])),
                        j + 1)
         ELSE CustomSum(acc, j + 1)

\* C9: with global multiplier <= 0 the uniform-tile phase is skipped: no batch is
\* dispatched, x_buffer is not scaled, no interrupt poll is made, and the
\* returned x_buffer holds the custom regions' weighted predictions and nothing
\* else
C9_PureCustomMode ==
    global_multiplier[1] <= 0 =>
        /\ pc \notin {"poll", "fuse"}
        /\ \A i \in 1 .. Len(trace) : trace[i].kind \in {"kdiff", "ddim", "pbar"}
        /\ ret # "x_in"
        /\ ReturnedBuffer =>
               /\ Kinds = CustomEvents
               /\ x_buffer = CustomSum(Zeros(h, w), 1)

\* C9 witness: a pure custom-region step with two regions returned a buffer
C9_Witness ==
    /\ ReturnedBuffer
    /\ global_multiplier[1] <= 0
    /\ Len(custom_bboxes) = 2
    /\ Len(batched_bboxes) >= 2
    /\ x_buffer # Zeros(h, w)

\* batches answered by the model so far in this call
Dispatched == Cardinality({i \in 1 .. Len(trace) : trace[i].kind = "batch"})

\* C10: the interrupt flag acts only at the poll before a uniform batch: every
\* dispatched batch is accumulated and reported, and a call that no poll stopped
\* dispatches every custom region and returns x_buffer, flag set or not
C10_InterruptOnlyAtPolls ==
    /\ pc = "fuse" => Prefix(Kinds, 2 * Dispatched - 1)
                          = Prefix(UniformEvents(Dispatched), 2 * Dispatched - 1)
    /\ pc # "fuse" => Prefix(Kinds, 2 * Dispatched) = UniformEvents(Dispatched)
    /\ \A i \in PollIdx : i = 2 * Dispatched + 1 /\ i = Len(trace)
    /\ (pc = "idle" /\ ret # "none" /\ PollIdx = {}) =>
           /\ ret = "x_buffer"
           /\ SelectSeq(SubSeq(Kinds, 2 * Dispatched + 1, Len(trace)), NotScale)
                  = CustomEvents

\* C10 witness: the flag is set, yet the call ran both batches and both custom
\* regions and returned x_buffer
C10_Witness ==
    /\ ReturnedBuffer
    /\ state_interrupted
    /\ global_multiplier[1] > 0
    /\ Len(batched_bboxes) = 2
    /\ Len(custom_bboxes) = 2
    /\ Len(trace) >= 8

====
